---------------------------- MODULE Spec2Model ----------------------------
(***************************************************************************)
(* PR Statement Generator backend: the generate/evaluate feedback loop of  *)
(* services/pr_generator.py, its process-wide handles, and the FastAPI     *)
(* endpoint of main.py that calls it.                                      *)
(*                                                                         *)
(* Text (a topic, a statement, a feedback, a prompt) is a sequence of      *)
(* tokens; the empty string is <<>>.  A prompt is built by concatenation   *)
(* exactly as the f-strings of the source build it.                        *)
(***************************************************************************)
EXTENDS Integers, Sequences, FiniteSets, TLC

VARIABLES
    llm,                      \* pr_generator._llm
    evaluator,                \* pr_generator._evaluator
    workflow_graph,           \* pr_generator._workflow_graph
    pr_generator_initialized, \* main._pr_generator_initialized
    phase,                    \* the application: "created", "serving", "failed"
    pc,                       \* the current call: "idle", "generate", "generating",
                              \* "evaluate", "evaluating", "done"
    caller,                   \* who made the current call: "none", "http", "direct"
    topic,                    \* the topic of the current call
    state,                    \* the LangGraph State dict of the current run
    step,                     \* the superstep the graph is about to execute
    result,                   \* how generate_pr_statement ended
    response,                 \* the HTTP response of the endpoint
    genCalls,                 \* _llm.invoke calls made in the current run
    evalCalls,                \* _evaluator.invoke calls made in the current run
    trace,                    \* what the provider calls of the current run were given and gave
    request,                  \* the body of the HTTP request being handled
    lastInit,                 \* the initialization attempt made since the last call
    runs                      \* the loop runs of the concurrent requests

vars == <<llm, evaluator, workflow_graph, pr_generator_initialized, phase,
          pc, caller, topic, state, step, result, response,
          genCalls, evalCalls, trace, request, lastInit, runs>>

globals == <<llm, evaluator, workflow_graph>>

-----------------------------------------------------------------------------
(* Bounds and program constants *)

\* Counters saturate here; above every value the loop can reach.
MaxCount == 30

\* _workflow_graph.ainvoke is called without a config, so LangGraph's default
\* recursion_limit bounds the supersteps of one run.
RecursionLimit == 25

\* Field(..., min_length=1, max_length=500)
MinTopicLength == 1
MaxTopicLength == 500

None == "None"

\* A topic of n characters, as "x" * n
Chars(n) == [i \in 1..n |-> "x"]

\* The topics a caller submits, one token a character: the empty one, the
\* shortest and the longest valid ones, and one that is too long.
Topics == { <<>>, <<"X">>, Chars(MaxTopicLength), Chars(MaxTopicLength + 1) }

\* The topics code other than the endpoint passes (nothing validates them).
DirectTopics == { <<>>, <<"X">> }

\* The JSON bodies posted: {"topic": t}, and {} (no topic field).
RequestBodies == {[topic |-> t] : t \in Topics} \cup {<<>>}

\* What the generator model may answer (response.content).
GenOutputs == { <<>>, <<"Draft">>, <<"Final">> }

\* What the evaluator model may answer before the Feedback schema is applied.
RawGrades == { "good", "needs improvement", "excellent" }
Feedbacks == { <<>>, <<"add", "benefits">>, <<"shorter">> }

-----------------------------------------------------------------------------
(* Text helpers *)

Contains(hay, needle) ==
    \E i \in 0..(Len(hay) - Len(needle)) :
        SubSeq(hay, i + 1, i + Len(needle)) = needle

Inc(n) == IF n < MaxCount THEN n + 1 ELSE n

\* A history kept up to MaxCount entries.
Record(seq, x) == IF Len(seq) < MaxCount THEN Append(seq, x) ELSE seq

\* a State whose feedback channel appends what a node returns to what it holds
MergeAppending(s, u) ==
    [k \in (DOMAIN s) \cup (DOMAIN u) |->
        IF k \in DOMAIN u
        THEN IF k = "feedback" /\ k \in DOMAIN s THEN s[k] \o u[k] ELSE u[k]
        ELSE s[k]]

\* a generation whose returned dict also overwrites the topic with its text
MergeWritingTopic(s, u) ==
    [k \in (DOMAIN s) \cup (DOMAIN u) |->
        IF k = "topic" /\ "pr_statement" \in DOMAIN u THEN u["pr_statement"]
        ELSE IF k \in DOMAIN u THEN u[k]
        ELSE s[k]]

\* a State that keeps the first value written to a key
MergeKeepFirst(s, u) ==
    [k \in (DOMAIN s) \cup (DOMAIN u) |-> IF k \in DOMAIN s THEN s[k] ELSE u[k]]

\* dict.update as LangGraph applies a node's returned dict to the state
Merge(s, u) ==
    [k \in (DOMAIN s) \cup (DOMAIN u) |-> IF k \in DOMAIN u THEN u[k] ELSE s[k]]

-----------------------------------------------------------------------------
(* models.py *)

\* max_length taken as an exclusive limit
ValidTopicExclusiveMax(t) == Len(t) >= MinTopicLength /\ Len(t) < MaxTopicLength

\* PRStatementRequest.topic: Field(..., min_length=1, max_length=500)
ValidTopic(t) == Len(t) >= MinTopicLength /\ Len(t) <= MaxTopicLength

\* PRStatementRequest: the topic field is required (Field(...))
ValidRequest(body) == "topic" \in DOMAIN body /\ ValidTopic(body["topic"])

\* Feedback.grade: Literal["good", "needs improvement"]
FeedbackGradeValid(g) == g \in {"good", "needs improvement"}

-----------------------------------------------------------------------------
(* services/pr_generator.py *)

GenPromptHead == <<"Generate a compelling PR statement for the topic ">>
GenPromptTail == <<". - highlight key benefits ... - professional yet engaging tone">>
FeedbackInstruction == <<" Also take provided feedback into account: ">>
EvalPromptHead == <<"Review the following PR statement: ">>
EvalPromptTail == <<". - Assess ... - Decide 'good' or 'needs improvement' ... - feedback">>
FallbackHead == <<"FOR IMMEDIATE RELEASE [Company Name] Announces Exciting Development in ">>
FallbackTail == <<" ...">>

\* "feedback" in state, where the source tests state.get("feedback")
HasFeedbackKeyPresent(s) == "feedback" \in DOMAIN s

\* state.get("feedback") is truthy
HasFeedback(s) == "feedback" \in DOMAIN s /\ s["feedback"] # <<>>

\* generate_pr_statement_node taking the else branch always: the feedback is
\* never put into the prompt
GenPromptWithoutFeedback(s) == GenPromptHead \o s["topic"] \o GenPromptTail

\* generate_pr_statement_node: the prompt handed to _llm.invoke
GenPrompt(s) ==
    LET prompt == GenPromptHead \o s["topic"] \o GenPromptTail
    IN  IF HasFeedback(s)
        THEN prompt \o FeedbackInstruction \o s["feedback"]
        ELSE prompt

\* evaluate_pr_statement_node: the prompt handed to _evaluator.invoke
EvalPrompt(s) == EvalPromptHead \o s["pr_statement"] \o EvalPromptTail

\* route_statement with its test dropped: every grade is sent back to generation
route_statement_always_rejects(s) == "Rejected + Feedback"

\* route_statement with its test dropped the other way: every grade is accepted
route_statement_always_accepts(s) == "Accepted"

\* route_statement
route_statement(s) ==
    IF s["grade"] = "good" THEN "Accepted" ELSE "Rejected + Feedback"

\* the fallback of generate_pr_statement's except clause
FallbackStatement(t) == FallbackHead \o t \o FallbackTail

\* a graph run with no limit on its supersteps
OutOfStepsNever(s) == FALSE

\* the limit reached one superstep early
OutOfStepsOffByOne(s) == s >= RecursionLimit

\* The graph stops with GraphRecursionError once the next superstep would
\* exceed the recursion limit.
OutOfSteps(s) == s > RecursionLimit

\* An exception that reaches the except clause of generate_pr_statement:
\* the call that raised it, the number of provider calls made by then, and the
\* State held by the frames of its traceback.
Exception(site, at, s) == [site |-> site, at |-> at, state |-> s]

NoException == Exception("none", 0, [topic |-> <<>>])

\* an except clause that reports the error in the statement it returns
ExceptClauseReportingError(e, t) ==
    [kind |-> "return", text |-> FallbackStatement(t) \o <<e.site>>,
     fallback |-> TRUE]

\* except Exception as api_error: the error is logged, and the statement
\* returned is built from the topic argument.
ExceptClause(e, t) ==
    [kind |-> "return", text |-> FallbackStatement(t), fallback |-> TRUE]

\* What generate_pr_statement(t) gives its caller: the fallback statement
\* when its try body raised e, the text of the accepted statement otherwise.
\* It never raises.
GeneratePRStatementResult(e, text, t) ==
    IF e.site # "none"
    THEN ExceptClause(e, t)
    ELSE [kind |-> "return", text |-> text, fallback |-> FALSE]

NoResult == [kind |-> "none", text |-> <<>>, fallback |-> FALSE]

-----------------------------------------------------------------------------
(* main.py *)

NoResponse == [code |-> 0, status |-> "", pr_statement |-> <<>>, detail |-> ""]

\* generate_pr_statement_endpoint after the awaited call: the success
\* envelope, or the 500 of its except Exception clause.
EndpointResponse(r) ==
    IF r.kind = "raise"
    THEN [code |-> 500, status |-> "", pr_statement |-> <<>>,
          detail |-> "Failed to generate PR statement"]
    ELSE [code |-> 200, status |-> "success", pr_statement |-> r.text,
          detail |-> ""]

ServiceUnavailable ==
    [code |-> 503, status |-> "", pr_statement |-> <<>>,
     detail |-> "PR Generator Service is not available"]

\* FastAPI's answer to a body that fails PRStatementRequest validation
ValidationError422 ==
    [code |-> 422, status |-> "", pr_statement |-> <<>>, detail |-> "validation error"]

-----------------------------------------------------------------------------
(* State *)

NoTrace ==
    [gen1Out |-> <<>>,        \* output of the first generate call
     gen1Prompt |-> <<>>,     \* prompt of the first generate call
     gen2Prompt |-> <<>>,     \* prompt of the second generate call
     lastGenOut |-> <<>>,     \* output of the latest generate call
     lastGenPrompt |-> <<>>,  \* prompt of the latest generate call
     fbAtGen |-> <<>>,        \* the evaluator's latest feedback when that call was made
     staleInPrompt |-> FALSE, \* that prompt held the superseded feedback of evaluation 1
     lastFeedback |-> <<>>,   \* feedback returned by the latest evaluation
     eval1Feedback |-> <<>>,  \* feedback returned by the first evaluate call
     lastEvalPrompt |-> <<>>, \* prompt of the latest evaluate call
     lastRawGrade |-> "",     \* grade the evaluator model answered last
     grades |-> <<>>,         \* the grades the evaluations of the run returned
     failure |-> "none",      \* what made the try body raise
     failedAt |-> 0,          \* genCalls + evalCalls when it raised
     accepted |-> FALSE]      \* the graph reached END

NoRequest == [sent |-> FALSE, body |-> <<>>]

NoInit == [failAt |-> "never", before |-> <<None, None, None>>, by |-> "none"]

NoRuns == <<>>

Init ==
    /\ llm = None
    /\ evaluator = None
    /\ workflow_graph = None
    /\ pr_generator_initialized = FALSE
    /\ phase = "created"
    /\ pc = "idle"
    /\ caller = "none"
    /\ topic = <<>>
    /\ state = [topic |-> <<>>]
    /\ step = 0
    /\ result = NoResult
    /\ response = NoResponse
    /\ genCalls = 0
    /\ evalCalls = 0
    /\ trace = NoTrace
    /\ request = NoRequest
    /\ lastInit = NoInit
    /\ runs = NoRuns


-----------------------------------------------------------------------------
(* Initialization: services/pr_generator.py initialize_pr_generator *)

\* Where an initialization attempt raises, if anywhere.
InitFailures == {"none", "credential", "ChatGroq", "structured", "workflow"}

\* initialize_llm constructing the LLM before it checks the credential
InitializedLLMBeforeCredentialCheck(failAt) ==
    IF failAt = "ChatGroq" THEN llm ELSE "ChatGroq"

\* initialize_llm: the credential check, then _llm, then _evaluator.  An
\* assignment whose right-hand side raises leaves the global as it was.
InitializedLLM(failAt) ==
    IF failAt \in {"credential", "ChatGroq"} THEN llm ELSE "ChatGroq"

InitializedEvaluator(failAt) ==
    IF failAt \in {"credential", "ChatGroq", "structured"}
    THEN evaluator
    ELSE "StructuredOutput(Feedback)"

\* build_workflow run whether or not initialize_llm returned
BuiltWorkflowRegardless(failAt) ==
    IF failAt = "workflow" THEN workflow_graph ELSE "CompiledStateGraph"

\* build_workflow runs only after initialize_llm returned.
BuiltWorkflow(failAt) ==
    IF failAt = "none" THEN "CompiledStateGraph" ELSE workflow_graph

\* initialize_pr_generator()
initialize_pr_generator(failAt) ==
    /\ llm' = InitializedLLM(failAt)
    /\ evaluator' = InitializedEvaluator(failAt)
    /\ workflow_graph' = BuiltWorkflow(failAt)

\* What lastInit holds after an attempt: the attempt, when no call is in
\* progress; attempts made during a call are not recorded.
InitRecord(failAt, by) ==
    IF pc = "idle"
    THEN [failAt |-> failAt, before |-> globals, by |-> by]
    ELSE lastInit

runVars == <<pc, caller, topic, state, step, result, response,
             genCalls, evalCalls, trace>>

\* lifespan with its except clause swallowing the failure: the application
\* starts although initialization raised
LifespanSwallowsFailure ==
    /\ phase = "created"
    /\ \E failAt \in InitFailures :
        /\ initialize_pr_generator(failAt)
        /\ pr_generator_initialized' =
               (IF failAt = "none" THEN TRUE ELSE pr_generator_initialized)
        /\ phase' = "serving"
        /\ lastInit' = InitRecord(failAt, "lifespan")
    /\ UNCHANGED <<runVars, request, runs>>

\* main.lifespan startup: the flag is set only when initialization returned;
\* a failure is re-raised and the application does not start.  A call that
\* other code is awaiting meanwhile goes on.
Lifespan ==
    /\ phase = "created"
    /\ \E failAt \in InitFailures :
        /\ initialize_pr_generator(failAt)
        /\ pr_generator_initialized' =
               (IF failAt = "none" THEN TRUE ELSE pr_generator_initialized)
        /\ phase' = IF failAt = "none" THEN "serving" ELSE "failed"
        /\ lastInit' = InitRecord(failAt, "lifespan")
    /\ UNCHANGED <<runVars, request, runs>>

\* The application handling requests without its lifespan having run, as a
\* client built on the app object alone does (tests/conftest.py async_client).
ServeWithoutLifespan ==
    /\ phase = "created"
    /\ pc = "idle"
    /\ phase' = "serving"
    /\ UNCHANGED <<globals, pr_generator_initialized, runVars, request, lastInit, runs>>

\* initialize_pr_generator called by code other than the lifespan.
InitializeDirect ==
    /\ phase # "failed"
    /\ \E failAt \in InitFailures :
        /\ initialize_pr_generator(failAt)
        /\ lastInit' = InitRecord(failAt, "direct")
    /\ UNCHANGED <<pr_generator_initialized, phase, runVars, request, runs>>

\* initialize_llm called on its own: a public function of the module, which
\* writes the two handles and leaves the graph alone.
InitializeLLMDirect ==
    /\ phase # "failed"
    /\ \E failAt \in InitFailures \ {"workflow"} :
        /\ llm' = InitializedLLM(failAt)
        /\ evaluator' = InitializedEvaluator(failAt)
        /\ lastInit' = InitRecord(failAt, "initialize_llm")
    /\ UNCHANGED <<workflow_graph, pr_generator_initialized, phase, runVars,
                   request, runs>>

\* build_workflow called on its own: it compiles the graph whether or not the
\* handles are set, and leaves them alone.
BuildWorkflowDirect ==
    /\ phase # "failed"
    /\ \E failAt \in {"none", "workflow"} :
        /\ workflow_graph' = BuiltWorkflow(failAt)
        /\ lastInit' = InitRecord(failAt, "build_workflow")
    /\ UNCHANGED <<llm, evaluator, pr_generator_initialized, phase, runVars,
                   request, runs>>

-----------------------------------------------------------------------------
(* One call of generate_pr_statement *)

\* The call ends: the try body raised (and the except clause answers) or
\* returned text; the endpoint, when it is the caller, builds its response.
FinishCall(who, t, e, text, tr) ==
    LET r == GeneratePRStatementResult(e, text, t)
    IN  /\ result' = r
        /\ response' = IF who = "http" THEN EndpointResponse(r) ELSE NoResponse
        /\ trace' = tr
        /\ pc' = "done"

\* a graph whose entry edge leads to Evaluate_PR_Statement
BeginCallAtEvaluate(who, t) ==
    /\ caller' = who
    /\ topic' = t
    /\ UNCHANGED <<genCalls, evalCalls>>
    /\ IF workflow_graph = None
       THEN /\ FinishCall(who, t, Exception("uninitialized", 0, [topic |-> t]), <<>>,
                          [trace EXCEPT !.failure = "uninitialized"])
            /\ UNCHANGED <<state, step>>
       ELSE /\ pc' = "evaluate"
            /\ state' = [topic |-> t]
            /\ step' = 1
            /\ UNCHANGED <<result, response, trace>>

\* generate_pr_statement(topic) up to its first provider call.
BeginCall(who, t) ==
    /\ caller' = who
    /\ topic' = t
    /\ UNCHANGED <<genCalls, evalCalls>>
    /\ IF workflow_graph = None
       THEN /\ FinishCall(who, t, Exception("uninitialized", 0, [topic |-> t]), <<>>,
                          [trace EXCEPT !.failure = "uninitialized"])
            /\ UNCHANGED <<state, step>>
       ELSE /\ pc' = "generate"
            /\ state' = [topic |-> t]
            /\ step' = 1
            /\ UNCHANGED <<result, response, trace>>

\* the endpoint with its availability check dropped
ServiceAlwaysAvailable == TRUE

\* main.generate_pr_statement_endpoint: the availability check
ServiceAvailable == pr_generator_initialized

\* The topic kept of a request: request.topic, or nothing parsed.
TopicOf(body) == IF "topic" \in DOMAIN body THEN body["topic"] ELSE <<>>

\* POST /api/generate-pr-statement with a JSON body
PostRequest ==
    /\ phase = "serving"
    /\ pc = "idle"
    /\ \E body \in RequestBodies :
        /\ request' = [sent |-> TRUE, body |-> body]
        /\ IF ~ValidRequest(body)
           THEN /\ response' = ValidationError422
                /\ pc' = "done"
                /\ caller' = "http"
                /\ topic' = TopicOf(body)
                /\ UNCHANGED <<state, step, result, genCalls, evalCalls, trace>>
           ELSE IF ~ServiceAvailable
           THEN /\ response' = ServiceUnavailable
                /\ pc' = "done"
                /\ caller' = "http"
                /\ topic' = body["topic"]
                /\ UNCHANGED <<state, step, result, genCalls, evalCalls, trace>>
           ELSE BeginCall("http", body["topic"])
    /\ lastInit' = NoInit
    /\ UNCHANGED <<globals, pr_generator_initialized, phase, runs>>

\* generate_pr_statement(topic) awaited by code other than the endpoint.
CallDirect ==
    /\ phase # "failed"
    /\ pc = "idle"
    /\ \E t \in DirectTopics : BeginCall("direct", t)
    /\ lastInit' = NoInit
    /\ UNCHANGED <<globals, pr_generator_initialized, phase, request, runs>>

GenOutcomes ==
    {[ok |-> TRUE, content |-> c] : c \in GenOutputs}
        \cup {[ok |-> FALSE, content |-> <<>>]}

\* generate_pr_statement_node(state) up to _llm.invoke(prompt): the handle is
\* tested, the prompt is built from the State and handed to the provider, and
\* the node waits for the answer.
GenerateCall ==
    /\ pc = "generate"
    /\ IF llm = None
       THEN /\ FinishCall(caller, topic,
                          Exception("uninitialized", genCalls + evalCalls, state),
                          <<>>,
                          [trace EXCEPT !.failure = "uninitialized",
                                        !.failedAt = genCalls + evalCalls])
            /\ UNCHANGED genCalls
       ELSE LET prompt == GenPrompt(state)
                n == Inc(genCalls)
            IN  /\ genCalls' = n
                /\ trace' = [trace EXCEPT
                       !.gen1Prompt = IF n = 1 THEN prompt ELSE @,
                       !.gen2Prompt = IF n = 2 THEN prompt ELSE @,
                       !.lastGenPrompt = prompt,
                       !.fbAtGen = trace.lastFeedback,
                       !.staleInPrompt =
                           /\ evalCalls >= 2
                           /\ trace.eval1Feedback # <<>>
                           /\ trace.eval1Feedback # trace.lastFeedback
                           /\ Contains(prompt, trace.eval1Feedback)]
                /\ pc' = "generating"
                /\ UNCHANGED <<result, response>>
    /\ UNCHANGED <<globals, pr_generator_initialized, phase, caller, topic, state,
                   step, evalCalls, request, lastInit, runs>>

\* _llm.invoke returns or raises: the node returns {"pr_statement": content},
\* the graph applies it to the State and takes the edge to
\* Evaluate_PR_Statement.
GenerateReturn ==
    /\ pc = "generating"
    /\ \E o \in GenOutcomes :
        IF ~o.ok
        THEN /\ FinishCall(caller, topic,
                           Exception("generate", genCalls + evalCalls, state), <<>>,
                           [trace EXCEPT !.failure = "generate",
                                         !.failedAt = genCalls + evalCalls])
             /\ UNCHANGED <<state, step>>
        ELSE LET tr2 == [trace EXCEPT
                            !.gen1Out = IF genCalls = 1 THEN o.content ELSE @,
                            !.lastGenOut = o.content]
             IN  /\ state' = Merge(state, [pr_statement |-> o.content])
                 /\ step' = Inc(step)
                 /\ IF OutOfSteps(step')
                    THEN FinishCall(caller, topic,
                             Exception("recursion", genCalls + evalCalls, state'),
                             <<>>,
                             [tr2 EXCEPT !.failure = "recursion",
                                         !.failedAt = genCalls + evalCalls])
                    ELSE /\ pc' = "evaluate"
                         /\ trace' = tr2
                         /\ UNCHANGED <<result, response>>
    /\ UNCHANGED <<globals, pr_generator_initialized, phase, caller, topic, genCalls,
                   evalCalls, request, lastInit, runs>>

\* Node Generate_PR_Statement
GenerateNode ==
    \/ GenerateCall
    \/ GenerateReturn

EvalOutcomes ==
    {[ok |-> TRUE, grade |-> g, feedback |-> f] : g \in RawGrades, f \in Feedbacks}
        \cup {[ok |-> FALSE, grade |-> "", feedback |-> <<>>]}

\* evaluate_pr_statement_node(state) up to _evaluator.invoke(prompt)
EvaluateCall ==
    /\ pc = "evaluate"
    /\ IF evaluator = None
       THEN /\ FinishCall(caller, topic,
                          Exception("uninitialized", genCalls + evalCalls, state),
                          <<>>,
                          [trace EXCEPT !.failure = "uninitialized",
                                        !.failedAt = genCalls + evalCalls])
            /\ UNCHANGED evalCalls
       ELSE /\ evalCalls' = Inc(evalCalls)
            /\ trace' = [trace EXCEPT !.lastEvalPrompt = EvalPrompt(state)]
            /\ pc' = "evaluating"
            /\ UNCHANGED <<result, response>>
    /\ UNCHANGED <<globals, pr_generator_initialized, phase, caller, topic, state,
                   step, genCalls, request, lastInit, runs>>

\* _evaluator.invoke returns a Feedback or raises: the node returns grade and
\* feedback, the graph applies them to the State and takes the conditional
\* edge route_statement.
EvaluateReturn ==
    /\ pc = "evaluating"
    /\ \E o \in EvalOutcomes :
        LET tr == [trace EXCEPT !.lastRawGrade = o.grade]
        IN  IF ~o.ok \/ ~FeedbackGradeValid(o.grade)
            THEN /\ FinishCall(caller, topic,
                               Exception(IF o.ok THEN "schema" ELSE "evaluate",
                                         genCalls + evalCalls, state),
                               <<>>,
                               [tr EXCEPT !.failure =
                                              IF o.ok THEN "schema" ELSE "evaluate",
                                          !.failedAt = genCalls + evalCalls])
                 /\ UNCHANGED <<state, step>>
            ELSE LET tr2 == [tr EXCEPT
                                !.eval1Feedback =
                                    IF evalCalls = 1 THEN o.feedback ELSE @,
                                !.lastFeedback = o.feedback,
                                !.grades = Record(@, o.grade)]
                     s2 == Merge(state, [grade |-> o.grade,
                                         feedback |-> o.feedback])
                 IN  /\ state' = s2
                     /\ step' = Inc(step)
                     /\ IF OutOfSteps(step')
                        THEN FinishCall(caller, topic,
                                 Exception("recursion", genCalls + evalCalls, s2),
                                 <<>>,
                                 [tr2 EXCEPT !.failure = "recursion",
                                             !.failedAt = genCalls + evalCalls])
                        ELSE IF route_statement(s2) = "Accepted"
                        THEN FinishCall(caller, topic, NoException,
                                 s2["pr_statement"],
                                 [tr2 EXCEPT !.accepted = TRUE])
                        ELSE /\ pc' = "generate"
                             /\ trace' = tr2
                             /\ UNCHANGED <<result, response>>
    /\ UNCHANGED <<globals, pr_generator_initialized, phase, caller, topic, genCalls,
                   evalCalls, request, lastInit, runs>>

\* Node Evaluate_PR_Statement
EvaluateNode ==
    \/ EvaluateCall
    \/ EvaluateReturn

\* a call whose end also drops the handles and the graph
NextCallDroppingHandles ==
    /\ pc = "done"
    /\ pc' = "idle"
    /\ caller' = "none"
    /\ topic' = <<>>
    /\ state' = [topic |-> <<>>]
    /\ step' = 0
    /\ result' = NoResult
    /\ response' = NoResponse
    /\ genCalls' = 0
    /\ evalCalls' = 0
    /\ trace' = NoTrace
    /\ request' = NoRequest
    /\ llm' = None
    /\ evaluator' = None
    /\ workflow_graph' = None
    /\ UNCHANGED <<pr_generator_initialized, phase, lastInit, runs>>

\* The call is over and its State dict discarded; the next call starts fresh.
NextCall ==
    /\ pc = "done"
    /\ pc' = "idle"
    /\ caller' = "none"
    /\ topic' = <<>>
    /\ state' = [topic |-> <<>>]
    /\ step' = 0
    /\ result' = NoResult
    /\ response' = NoResponse
    /\ genCalls' = 0
    /\ evalCalls' = 0
    /\ trace' = NoTrace
    /\ request' = NoRequest
    /\ UNCHANGED <<globals, pr_generator_initialized, phase, lastInit, runs>>

Next ==
    \/ Lifespan
    \/ ServeWithoutLifespan
    \/ InitializeDirect
    \/ InitializeLLMDirect
    \/ BuildWorkflowDirect
    \/ PostRequest
    \/ CallDirect
    \/ GenerateNode
    \/ EvaluateNode
    \/ NextCall

Spec == Init /\ [][Next]_vars

\* Every provider call returns or raises, and the event loop runs the awaited
\* graph to its end.
FairSpec == Spec /\ WF_vars(GenerateNode) /\ WF_vars(EvaluateNode)


-----------------------------------------------------------------------------
(* Concurrent invocations: two requests awaiting generate_pr_statement on one
   event loop, after a startup that succeeded.  Each ainvoke call is given its
   own input dict, the handles and the graph are only read, and an invocation
   runs while the other waits for a provider answer inside a node or stands
   between two nodes. *)

RunIds == {1, 2}

ConcTopics(i) == IF i = 1 THEN { <<"X">> } ELSE { <<"X">>, <<"Y">> }

ConcGenOutcomes ==
    {[ok |-> TRUE, content |-> c] : c \in { <<"Draft">>, <<"Final">> }}
        \cup {[ok |-> FALSE, content |-> <<>>]}

ConcEvalOutcomes ==
    {[ok |-> TRUE, grade |-> g, feedback |-> f] :
        g \in RawGrades, f \in { <<"add", "benefits">>, <<"shorter">> }}
        \cup {[ok |-> FALSE, grade |-> "", feedback |-> <<>>]}

\* One invocation: its position ("idle", "generate", "generating",
\* "evaluate", "evaluating", "done"), the locals of generate_pr_statement, and
\* the prompt the provider holds while the invocation waits for its answer.
\* alone is the State the same answers build in a run that nothing else
\* touches.
NoRun ==
    [pc |-> "idle", topic |-> <<>>, step |-> 0, result |-> NoResult,
     genCalls |-> 0, evalCalls |-> 0, failure |-> "none",
     alone |-> [topic |-> <<>>], prompt |-> <<>>]

ConcRuns ==
    [inv |-> [i \in RunIds |-> NoRun],
     st  |-> [i \in RunIds |-> [topic |-> <<>>]]]

\* every invocation working on one State object
SharedStateSlot(i) == 1

\* The State of invocation i is the one built from the dict its own ainvoke
\* call was given.
StateSlot(i) == i

ConcInit ==
    /\ llm = "ChatGroq"
    /\ evaluator = "StructuredOutput(Feedback)"
    /\ workflow_graph = "CompiledStateGraph"
    /\ pr_generator_initialized = TRUE
    /\ phase = "serving"
    /\ pc = "idle"
    /\ caller = "none"
    /\ topic = <<>>
    /\ state = [topic |-> <<>>]
    /\ step = 0
    /\ result = NoResult
    /\ response = NoResponse
    /\ genCalls = 0
    /\ evalCalls = 0
    /\ trace = NoTrace
    /\ request = NoRequest
    /\ lastInit = NoInit
    /\ runs = ConcRuns

concFrame == <<globals, pr_generator_initialized, phase, runVars, request, lastInit>>

\* runs after invocation i moved to r and wrote s to its State
ConcUpdate(i, r, s) ==
    [inv |-> [runs.inv EXCEPT ![i] = r],
     st  |-> [runs.st EXCEPT ![StateSlot(i)] = s]]

LatestFeedback(s) == IF "feedback" \in DOMAIN s THEN s["feedback"] ELSE <<>>

\* generate_pr_statement(topic) of invocation i, up to its first node
ConcStart(i) ==
    /\ runs.inv[i].pc = "idle"
    /\ \E t \in ConcTopics(i) :
        runs' = ConcUpdate(i,
                    [runs.inv[i] EXCEPT !.pc = "generate", !.topic = t,
                                        !.step = 1, !.alone = [topic |-> t]],
                    [topic |-> t])
    /\ UNCHANGED concFrame

\* generate_pr_statement_node of invocation i up to _llm.invoke(prompt)
ConcGenerateCall(i) ==
    /\ runs.inv[i].pc = "generate"
    /\ LET r == runs.inv[i]
           s == runs.st[StateSlot(i)]
       IN  runs' = ConcUpdate(i,
                       [r EXCEPT !.pc = "generating", !.genCalls = Inc(@),
                                 !.prompt = GenPrompt(s)],
                       s)
    /\ UNCHANGED concFrame

\* _llm.invoke of invocation i returns or raises
ConcGenerateReturn(i) ==
    /\ runs.inv[i].pc = "generating"
    /\ \E o \in ConcGenOutcomes :
        LET r == runs.inv[i]
            s == runs.st[StateSlot(i)]
            r1 == [r EXCEPT !.prompt = <<>>]
        IN  IF ~o.ok
            THEN runs' = ConcUpdate(i,
                     [r1 EXCEPT !.pc = "done", !.failure = "generate",
                                !.result = GeneratePRStatementResult(
                                    Exception("generate", r.genCalls + r.evalCalls, s),
                                    <<>>, r.topic)],
                     s)
            ELSE LET u == [pr_statement |-> o.content]
                     r2 == [r1 EXCEPT !.step = Inc(@), !.alone = Merge(@, u)]
                 IN  runs' = ConcUpdate(i,
                         IF OutOfSteps(r2.step)
                         THEN [r2 EXCEPT !.pc = "done", !.failure = "recursion",
                                         !.result = GeneratePRStatementResult(
                                             Exception("recursion",
                                                       r.genCalls + r.evalCalls,
                                                       Merge(s, u)),
                                             <<>>, r.topic)]
                         ELSE [r2 EXCEPT !.pc = "evaluate"],
                         Merge(s, u))
    /\ UNCHANGED concFrame

\* Node Generate_PR_Statement of invocation i
ConcGenerate(i) ==
    \/ ConcGenerateCall(i)
    \/ ConcGenerateReturn(i)

\* evaluate_pr_statement_node of invocation i up to _evaluator.invoke(prompt)
ConcEvaluateCall(i) ==
    /\ runs.inv[i].pc = "evaluate"
    /\ LET r == runs.inv[i]
           s == runs.st[StateSlot(i)]
       IN  runs' = ConcUpdate(i,
                       [r EXCEPT !.pc = "evaluating", !.evalCalls = Inc(@),
                                 !.prompt = EvalPrompt(s)],
                       s)
    /\ UNCHANGED concFrame

\* _evaluator.invoke of invocation i returns or raises, then route_statement
ConcEvaluateReturn(i) ==
    /\ runs.inv[i].pc = "evaluating"
    /\ \E o \in ConcEvalOutcomes :
        LET r == runs.inv[i]
            s == runs.st[StateSlot(i)]
            r1 == [r EXCEPT !.prompt = <<>>]
        IN  IF ~o.ok \/ ~FeedbackGradeValid(o.grade)
            THEN runs' = ConcUpdate(i,
                     [r1 EXCEPT !.pc = "done",
                                !.failure = IF o.ok THEN "schema" ELSE "evaluate",
                                !.result = GeneratePRStatementResult(
                                    Exception(IF o.ok THEN "schema" ELSE "evaluate",
                                              r.genCalls + r.evalCalls, s),
                                    <<>>, r.topic)],
                     s)
            ELSE LET u == [grade |-> o.grade, feedback |-> o.feedback]
                     s2 == Merge(s, u)
                     r2 == [r1 EXCEPT !.step = Inc(@), !.alone = Merge(@, u)]
                 IN  runs' = ConcUpdate(i,
                         IF OutOfSteps(r2.step)
                         THEN [r2 EXCEPT !.pc = "done", !.failure = "recursion",
                                         !.result = GeneratePRStatementResult(
                                             Exception("recursion",
                                                       r.genCalls + r.evalCalls, s2),
                                             <<>>, r.topic)]
                         ELSE IF route_statement(s2) = "Accepted"
                         THEN [r2 EXCEPT !.pc = "done",
                                         !.result = GeneratePRStatementResult(
                                             NoException, s2["pr_statement"], r.topic)]
                         ELSE [r2 EXCEPT !.pc = "generate"],
                         s2)
    /\ UNCHANGED concFrame

\* Node Evaluate_PR_Statement of invocation i
ConcEvaluate(i) ==
    \/ ConcEvaluateCall(i)
    \/ ConcEvaluateReturn(i)

ConcNext ==
    \E i \in RunIds :
        \/ ConcStart(i)
        \/ ConcGenerate(i)
        \/ ConcEvaluate(i)

ConcSpec == ConcInit /\ [][ConcNext]_vars

-----------------------------------------------------------------------------
(* Properties *)

Running == pc \in {"generate", "generating", "evaluate", "evaluating"}
Done == pc = "done"
Returned == Done /\ result.kind = "return"
Raised == Done /\ result.kind = "raise"

NI == "needs improvement"

\* C1: once the first evaluation of a run has graded "good", the run is over
\* with exactly one generate call and one evaluate call made, and what it
\* returned is the first generation's output, unchanged.
C1_SinglePass ==
    (Len(trace.grades) >= 1 /\ trace.grades[1] = "good") =>
        /\ Returned
        /\ genCalls = 1
        /\ evalCalls = 1
        /\ ~result.fallback
        /\ result.text = trace.gen1Out

C1_Witness ==
    /\ Returned
    /\ trace.grades = <<"good">>
    /\ trace.gen1Out = <<"Draft">>
    /\ result.text = <<"Draft">>

\* C2: once the evaluations of a run have graded "needs improvement" and then
\* "good", the run is over with exactly two generate calls and two evaluate
\* calls made, the prompt of the second generate call carried the feedback of
\* the first evaluation, and the run returned the second generation's output.
C2_OneRetry ==
    (Len(trace.grades) >= 2 /\ trace.grades[1] = NI /\ trace.grades[2] = "good") =>
        /\ Returned
        /\ genCalls = 2
        /\ evalCalls = 2
        /\ Contains(trace.gen2Prompt, trace.eval1Feedback)
        /\ trace.eval1Feedback # <<>> =>
               Contains(trace.gen2Prompt, FeedbackInstruction \o trace.eval1Feedback)
        /\ ~result.fallback
        /\ result.text = trace.lastGenOut

C2_Witness ==
    /\ Returned
    /\ trace.grades = <<NI, "good">>
    /\ trace.eval1Feedback = <<"add", "benefits">>
    /\ trace.gen1Out = <<"Draft">>
    /\ result.text = <<"Final">>

\* C3: when the first generate call of a run raises, generate_pr_statement
\* raises to its caller and no evaluate call was made.
C3_FirstGenerateRaises ==
    (trace.failure = "generate" /\ genCalls = 1) =>
        /\ Raised
        /\ evalCalls = 0

\* C4: when a generate or evaluate call fails, the run makes no further
\* provider call and the failure leaves generate_pr_statement as a raised
\* error, not as a returned statement.
C4_FailurePropagates ==
    (trace.failure \in {"generate", "evaluate"}) =>
        /\ Raised
        /\ trace.failedAt = genCalls + evalCalls

\* C5: when an evaluation yields a grade outside {"good", "needs
\* improvement"}, the run ends raising an error and makes no further
\* provider call.
C5_UnknownGradeRaises ==
    (trace.lastRawGrade \notin {"", "good", NI}) =>
        /\ Raised
        /\ trace.failedAt = genCalls + evalCalls

\* C6: every run of the loop, for every topic and whatever the generator and
\* the evaluator answer, ends: generate_pr_statement returns or raises.
C6_Terminates == Running ~> (Returned \/ Raised)

\* A run the evaluator never accepted, stopped by the recursion limit.
C6_Witness ==
    /\ Done
    /\ trace.failure = "recursion"
    /\ ValidTopic(topic)
    /\ \A i \in 1..Len(trace.grades) : trace.grades[i] = NI

\* C7: whenever generate_pr_statement returns, the returned text is not empty.
C7_NeverEmpty == Returned => result.text # <<>>

\* C8: a call made while the handles or the workflow are not initialized ends
\* as a raised error, never as a returned statement.
C8_UninitializedRaises == (Done /\ trace.failure = "uninitialized") => Raised

\* C9: a valid request handled while the service is initialized is answered
\* 200 with status "success" and a non-empty pr_statement.
C9_AlwaysSuccess ==
    (Done /\ caller = "http" /\ ValidTopic(topic) /\ pr_generator_initialized) =>
        /\ response.code = 200
        /\ response.status = "success"
        /\ response.pr_statement # <<>>

\* C10 as stated: while the initialized flag is false, every POST to the
\* endpoint is answered 503 "PR Generator Service is not available"; the loop
\* is not entered and no provider call is made.
C10_EveryPostAnswered503 ==
    (caller = "http" /\ ~pr_generator_initialized) =>
        /\ Done
        /\ response.code = 503
        /\ response.detail = "PR Generator Service is not available"
        /\ result = NoResult
        /\ genCalls = 0
        /\ evalCalls = 0
        /\ trace = NoTrace

\* C10, amended: while the initialized flag is false, a request with a valid
\* topic is answered 503 "PR Generator Service is not available" and a
\* request whose topic is missing or not valid is answered 422; in both
\* cases the loop is not entered and no provider call is made.
C10_NotInitialized503 ==
    (caller = "http" /\ ~pr_generator_initialized) =>
        /\ Done
        /\ result = NoResult
        /\ genCalls = 0
        /\ evalCalls = 0
        /\ trace = NoTrace
        /\ ValidTopic(topic) =>
               /\ response.code = 503
               /\ response.detail = "PR Generator Service is not available"
        /\ ~ValidTopic(topic) => response = ValidationError422

\* The flag is false although the handles and the workflow are set.
C10_Witness ==
    /\ Done
    /\ caller = "http"
    /\ ValidTopic(topic)
    /\ ~pr_generator_initialized
    /\ workflow_graph # None
    /\ response = ServiceUnavailable


C13_CredentialFailureChangesNothing ==
    lastInit.failAt = "credential" => globals = lastInit.before

\* The attempt found handles set by an earlier attempt and left them set.
C13_Witness ==
    /\ lastInit.failAt = "credential"
    /\ lastInit.before = <<"ChatGroq", None, None>>
    /\ llm = "ChatGroq"

\* C14: a posted request is rejected with 422 exactly when its body has no
\* topic or a topic shorter than 1 or longer than 500 characters; a rejected
\* request starts no run and makes no provider call, an accepted one is never
\* answered 422.
C14_ValidationGate ==
    request.sent =>
        LET present == "topic" \in DOMAIN request.body
            inRange == /\ present
                       /\ Len(request.body["topic"]) >= MinTopicLength
                       /\ Len(request.body["topic"]) <= MaxTopicLength
        IN  /\ (response.code = 422) <=> ~inRange
            /\ ~inRange =>
                   /\ Done
                   /\ genCalls = 0
                   /\ evalCalls = 0
                   /\ result = NoResult
                   /\ trace = NoTrace
                   /\ step = 0

\* A topic of exactly 500 characters was accepted and answered.
C14_Witness ==
    /\ request.sent
    /\ Len(topic) = MaxTopicLength
    /\ response.code = 200
    /\ genCalls >= 1

\* The generation prompt built from a topic and the feedback in force.
ExpectedGenPrompt(t, fb) ==
    GenPromptHead \o t \o GenPromptTail
        \o (IF fb # <<>> THEN FeedbackInstruction \o fb ELSE <<>>)

\* C16: in a run, generations and evaluations alternate starting with a
\* generation; each evaluation is given the statement the generation before
\* it produced; the prompt of generation N+1 carries the feedback of
\* evaluation N and nothing of an earlier evaluation.
C16_FeedbackOrdering ==
    /\ genCalls - evalCalls \in {0, 1}
    /\ (evalCalls >= 1 /\ genCalls = evalCalls) =>
           trace.lastEvalPrompt = EvalPromptHead \o trace.lastGenOut \o EvalPromptTail
    /\ genCalls >= 1 =>
           trace.lastGenPrompt = ExpectedGenPrompt(topic, trace.fbAtGen)
    /\ ~trace.staleInPrompt

\* The third generation was given the second evaluation's feedback only.
C16_Witness ==
    /\ genCalls = 3
    /\ evalCalls = 2
    /\ trace.eval1Feedback = <<"add", "benefits">>
    /\ trace.fbAtGen = <<"shorter">>
    /\ Contains(trace.lastGenPrompt, <<"shorter">>)
    /\ ~Contains(trace.lastGenPrompt, <<"add", "benefits">>)

Last(seq) == seq[Len(seq)]

\* C17: a run returns a generated statement only when its latest evaluation
\* graded "good" the statement returned, which is the output of its last
\* generate call; after an evaluation that returned any other grade the run
\* is back at generation, its state carrying that evaluation's feedback.
C17_GradeIsSoleCriterion ==
    /\ (Returned /\ ~result.fallback) =>
           /\ trace.accepted
           /\ trace.failure = "none"
           /\ Len(trace.grades) = evalCalls
           /\ evalCalls >= 1
           /\ Last(trace.grades) = "good"
           /\ genCalls = evalCalls
           /\ result.text = trace.lastGenOut
           /\ trace.lastEvalPrompt = EvalPromptHead \o result.text \o EvalPromptTail
    /\ (/\ evalCalls >= 1
        /\ genCalls = evalCalls
        /\ Len(trace.grades) = evalCalls
        /\ Last(trace.grades) # "good") =>
           /\ pc = "generate"
           /\ state["feedback"] = trace.lastFeedback
           /\ result = NoResult

C17_Witness ==
    /\ Returned
    /\ ~result.fallback
    /\ trace.grades = <<NI, NI, "good">>
    /\ result.text = <<"Final">>

AllNeedImprovement == \A i \in 1..Len(trace.grades) : trace.grades[i] = NI

NoCallRaised ==
    trace.failure \notin {"generate", "evaluate", "schema", "uninitialized"}

\* C18 as stated: nothing but a "good" grade or a raising call ends a run, so
\* a run whose evaluations all graded "needs improvement" is never over.
C18_NeverEndsWithoutGood ==
    ~(Done /\ genCalls >= 1 /\ NoCallRaised /\ ~trace.accepted)

\* C18, amended: a run that no "good" grade and no raising call ended was
\* ended by the recursion limit, after 13 generate calls and 12 evaluate
\* calls that all graded "needs improvement", and it returned the fallback.
C18_BoundedByRecursionLimit ==
    (Done /\ genCalls >= 1 /\ NoCallRaised /\ ~trace.accepted) =>
        /\ trace.failure = "recursion"
        /\ genCalls = (RecursionLimit + 1) \div 2
        /\ evalCalls = RecursionLimit \div 2
        /\ Len(trace.grades) = evalCalls
        /\ AllNeedImprovement
        /\ result = [kind |-> "return", text |-> FallbackStatement(topic),
                     fallback |-> TRUE]

C18_Witness ==
    /\ Done
    /\ trace.failure = "recursion"
    /\ genCalls = 13
    /\ evalCalls = 12
    /\ result.fallback

\* C19: the prompt of a generate call holds the feedback instruction exactly
\* when the latest feedback at that call is not empty; the first prompt of a
\* run never holds it; a call made with empty feedback is given the first
\* prompt again.
C19_FeedbackInstructionIff ==
    genCalls >= 1 =>
        /\ Contains(trace.lastGenPrompt, FeedbackInstruction) <=> trace.fbAtGen # <<>>
        /\ ~Contains(trace.gen1Prompt, FeedbackInstruction)
        /\ trace.fbAtGen = <<>> => trace.lastGenPrompt = trace.gen1Prompt

\* A retry after "needs improvement" with empty feedback.
C19_Witness ==
    /\ genCalls = 2
    /\ trace.grades = <<NI>>
    /\ trace.eval1Feedback = <<>>
    /\ trace.lastGenPrompt = trace.gen1Prompt
    /\ trace.gen1Prompt # <<>>

\* C20: whenever the state holds a grade it holds a statement, and the
\* statement is the output of the latest generate call of the run.
C20_StatementIsLatestGeneration ==
    /\ "grade" \in DOMAIN state => "pr_statement" \in DOMAIN state
    /\ "pr_statement" \in DOMAIN state => state["pr_statement"] = trace.lastGenOut

C20_Witness ==
    /\ "grade" \in DOMAIN state
    /\ genCalls = 2
    /\ trace.gen1Out = <<"Draft">>
    /\ state["pr_statement"] = <<"Final">>

RunDone(i) == runs.inv[i].pc = "done"

\* C11: two failed runs with the same topic return the same text, whichever
\* call failed, in whichever iteration and with whatever statement or feedback
\* in the State, and the text of every failed run embeds its topic.
C11_FallbackDeterministic ==
    \A i, j \in RunIds :
        (RunDone(i) /\ runs.inv[i].result.fallback) =>
            /\ Contains(runs.inv[i].result.text, runs.inv[i].topic)
            /\ runs.inv[i].result.kind = "return"
            /\ (/\ RunDone(j)
                /\ runs.inv[j].result.fallback
                /\ runs.inv[j].topic = runs.inv[i].topic) =>
                   runs.inv[j].result.text = runs.inv[i].result.text

\* One run failed at its first generate call, the other at the schema check
\* of its second evaluation, with a second statement and feedback in its State.
C11_Witness ==
    /\ RunDone(1) /\ RunDone(2)
    /\ runs.inv[1].topic = <<"X">>
    /\ runs.inv[2].topic = <<"X">>
    /\ runs.inv[1].failure = "generate" /\ runs.inv[1].genCalls = 1
    /\ runs.inv[2].failure = "schema" /\ runs.inv[2].evalCalls = 2
    /\ runs.inv[2].alone["pr_statement"] = <<"Final">>
    /\ runs.inv[2].alone["feedback"] = <<"shorter">>
    /\ runs.inv[1].result.text = runs.inv[2].result.text
    /\ runs.inv[1].result.fallback /\ runs.inv[2].result.fallback

\* What a finished run returns when nothing else touches its State.
ResultAlone(r) ==
    IF r.failure # "none"
    THEN [kind |-> "return", text |-> FallbackStatement(r.topic), fallback |-> TRUE]
    ELSE [kind |-> "return", text |-> r.alone["pr_statement"], fallback |-> FALSE]

\* C15: in every interleaving of two runs, each run's State is the one its own
\* answers build when it runs alone; the generation prompt a provider holds
\* for it is built from its own topic and the feedback of its own latest
\* evaluation and holds no other run's topic; the evaluation prompt a
\* provider holds for it embeds its own latest statement; and a finished run
\* returned what it returns alone.
C15_RunsIsolated ==
    \A i \in RunIds :
        LET r == runs.inv[i]
        IN  /\ r.pc # "idle" => runs.st[i] = r.alone
            /\ r.pc = "generating" =>
                   /\ r.prompt = ExpectedGenPrompt(r.topic, LatestFeedback(r.alone))
                   /\ \A j \in RunIds \ {i} :
                          (runs.inv[j].pc # "idle" /\ runs.inv[j].topic # r.topic) =>
                              ~Contains(r.prompt, runs.inv[j].topic)
            /\ r.pc = "evaluating" =>
                   r.prompt = EvalPromptHead \o r.alone["pr_statement"] \o EvalPromptTail
            /\ r.pc = "done" =>
                   /\ r.result = ResultAlone(r)
                   /\ r.failure = "none" => r.alone["grade"] = "good"

\* Two runs with different topics, both waiting for the answer to their
\* second generation, each with its own statement and its own feedback.
C15_Witness ==
    /\ runs.inv[1].topic = <<"X">> /\ runs.inv[2].topic = <<"Y">>
    /\ runs.inv[1].pc = "generating" /\ runs.inv[1].genCalls = 2
    /\ runs.inv[2].pc = "generating" /\ runs.inv[2].genCalls = 2
    /\ runs.st[1]["feedback"] = <<"shorter">>
    /\ runs.st[2]["feedback"] = <<"add", "benefits">>
    /\ runs.st[1]["pr_statement"] = <<"Final">>
    /\ runs.st[2]["pr_statement"] = <<"Draft">>
    /\ Contains(runs.inv[1].prompt, <<"shorter">>)
    /\ Contains(runs.inv[2].prompt, <<"add", "benefits">>)

\* The words a generation prompt opens with for topic t.
PromptOpening(t) == GenPromptHead \o t \o GenPromptTail

\* C21: from the start of a run to its end the State's topic is the topic the
\* caller submitted, after every generation and every evaluation, and the
\* first and the latest generation prompt open with that topic embedded.
C21_TopicImmutable ==
    (pc # "idle" /\ step >= 1) =>
        /\ "topic" \in DOMAIN state
        /\ state["topic"] = topic
        /\ genCalls >= 1 =>
               /\ SubSeq(trace.gen1Prompt, 1, Len(PromptOpening(topic)))
                      = PromptOpening(topic)
               /\ SubSeq(trace.lastGenPrompt, 1, Len(PromptOpening(topic)))
                      = PromptOpening(topic)

\* The third generation of a run, after two evaluations, used the topic.
C21_Witness ==
    /\ genCalls = 3
    /\ evalCalls = 2
    /\ pc = "evaluate"
    /\ topic = <<"X">>
    /\ state["topic"] = <<"X">>
    /\ state["pr_statement"] = <<"Final">>
    /\ Contains(trace.lastGenPrompt, <<"X">>)

C23_CallCounts ==
    /\ genCalls = evalCalls \/ genCalls = evalCalls + 1
    /\ pc = "generate" => genCalls = evalCalls
    /\ pc = "generating" => genCalls = evalCalls + 1
    /\ pc = "evaluate" => genCalls = evalCalls + 1
    /\ pc = "evaluating" => genCalls = evalCalls
    /\ (Returned /\ ~result.fallback) => (genCalls = evalCalls /\ evalCalls >= 1)
    /\ trace.failure \in {"generate", "recursion"} => genCalls = evalCalls + 1
    /\ trace.failure \in {"evaluate", "schema"} => genCalls = evalCalls

\* A run accepted at its fourth evaluation.
C23_Witness ==
    /\ Returned
    /\ ~result.fallback
    /\ genCalls = 4
    /\ evalCalls = 4

\* The graph is set only with both handles, the evaluator only with the
\* generator.
OrderedHandles ==
    /\ workflow_graph # None => (llm # None /\ evaluator # None)
    /\ evaluator # None => llm # None

\* C24: a process starts with nothing set, and every initialization attempt
\* (a call of initialize_pr_generator, by the lifespan or directly), failing
\* at any of its four points or at none, keeps: a workflow graph that is set
\* comes with a generator and an evaluator handle that are both set.  So this
\* holds after any sequence of such attempts.  An initialized flag that is
\* true always comes with a workflow graph that is set.
C24_InitializationOrder ==
    /\ OrderedHandles
    /\ [](pr_generator_initialized => workflow_graph # None)
    /\ [][(OrderedHandles /\ lastInit'.by \in {"lifespan", "direct"})
              => OrderedHandles']_vars

\* An attempt that failed at the evaluator derivation left the generator
\* handle set and the evaluator handle and the graph unset.
C24_Witness ==
    /\ lastInit.by = "direct"
    /\ lastInit.failAt = "structured"
    /\ lastInit.before = <<None, None, None>>
    /\ llm # None
    /\ evaluator = None
    /\ workflow_graph = None
    /\ ~pr_generator_initialized

=============================================================================
